---- MODULE Spec2Model ----
(***************************************************************************)
(* The coordinator of the asynchronous federated learning tutorial         *)
(* (Asynchronous-federated-learning-on-MNIST.ipynb): the training loop of  *)
(* the last code cell, the three websocket training workers it fans out    *)
(* to, the evaluation worker "testing", federated averaging and the        *)
(* learning-rate decay.                                                     *)
(*                                                                         *)
(* Numbers.  Parameter tensors are abstracted to one scalar per key, held  *)
(* as an exact rational [num, den].  Learning rates are exact decimals in  *)
(* base 100: <<i, d1, d2, ...>> is i + d1/100 + d2/100^2 + ..., so that    *)
(* 0.98 is <<0, 98>> and 0.01 is <<0, 1>>; floating-point rounding is not  *)
(* modelled.                                                               *)
(***************************************************************************)
EXTENDS Integers, Sequences, FiniteSets, TLC

\* ------------------------------------------------------------------ bounds
\* Longest run of the detailed specification Spec.
MaxRounds == 3
\* A training worker returns None or one of SnapshotOf(0) .. SnapshotOf(MaxSnap).
MaxSnap == 2
\* Run lengths of the long-run specification SpecLong: every length up to
\* MaxSchedRounds, and one run of MaxDecayRounds rounds (long enough for the
\* learning rate to reach its floor).
MaxSchedRounds == 41
MaxDecayRounds == 230

\* ------------------------------------------------------- program constants
\* worker_instances = [alice, bob, charlie]
worker_instances == <<"alice", "bob", "charlie">>
WorkerIds == {worker_instances[i] : i \in 1..Len(worker_instances)}
\* testing = WebsocketClientWorker(id="testing", ...), the evaluation worker
testing == "testing"
\* curr_round % 10 == 1
EvalPeriod == 10
\* 0.98 * learning_rate, in hundredths
DecayPercent == 98
\* args.lr * 0.01, in hundredths
FloorPercent == 1
\* The parameter keys of the model (a state_dict's keys), two of them kept.
Keys == {"conv1.weight", "fc2.bias"}
\* A model a worker did not return.
None == [none |-> TRUE]

\* ---------------------------------------------------------------- rationals
\* The element of a one-element set: Only({f(v) : v \in {e}}) is f(e) with e
\* evaluated once.
Only(S) == CHOOSE v \in S : TRUE

RECURSIVE GCD(_, _)
GCD(a, b) == IF b = 0 THEN a ELSE Only({GCD(b, r) : r \in {a % b}})

Rat(n, d) ==
    Only({Only({[num |-> nv \div g, den |-> dv \div g]
                : g \in {GCD(IF nv < 0 THEN -nv ELSE nv, dv)}})
          : nv \in {n}, dv \in {d}})
RatAdd(p, q) ==
    Only({Rat(pv.num * qv.den + qv.num * pv.den, pv.den * qv.den) : pv \in {p}, qv \in {q}})
\* p * (1 / n)
RatScale(p, n) == Only({Rat(pv.num, pv.den * n) : pv \in {p}})

\* ----------------------------------------------------------------- decimals
Digit(d, i) == IF i <= Len(d) THEN d[i] ELSE 0

\* d without its trailing zero places.
Trim(d) ==
    LET last == CHOOSE i \in 1..Len(d) :
                    /\ i = 1 \/ d[i] # 0
                    /\ \A j \in (i + 1)..Len(d) : d[j] = 0
    IN  SubSeq(d, 1, last)

\* The places lo..hi of d times c: their digits, and the carry out of place lo,
\* given the carry into place hi (the lower half is multiplied first).
RECURSIVE MulRange(_, _, _, _, _)
MulRange(d, c, lo, hi, carry) ==
    IF lo = hi
    THEN Only({[digits |-> <<p % 100>>, carry |-> p \div 100] : p \in {d[lo] * c + carry}})
    ELSE Only({Only({[digits |-> l.digits \o r.digits, carry |-> l.carry]
                     : l \in {MulRange(d, c, lo, (lo + hi) \div 2, r.carry)}})
               : r \in {MulRange(d, c, (lo + hi) \div 2 + 1, hi, carry)}})

\* d * (h / 100): the product of d and a two-place decimal literal.
DecTimes(d, h) ==
    Only({Trim(<<p.carry>> \o p.digits) : p \in {MulRange(d, h, 1, Len(d), 0)}})

\* -1, 0, 1 as a < b, a = b, a > b: decided at the first place they differ in.
DecCmp(a, b) ==
    IF a = b THEN 0
    ELSE LET n == IF Len(a) > Len(b) THEN Len(a) ELSE Len(b)
             i == CHOOSE k \in 1..n :
                     /\ Digit(a, k) # Digit(b, k)
                     /\ \A j \in 1..(k - 1) : Digit(a, j) = Digit(b, j)
         IN  IF Digit(a, i) < Digit(b, i) THEN -1 ELSE 1

DecLeq(a, b) == Only({DecCmp(u, v) <= 0 : u \in {a}, v \in {b}})
\* Python's max(a, b)
DecMax(a, b) == Only({IF DecCmp(v, u) > 0 THEN v ELSE u : u \in {a}, v \in {b}})

\* ------------------------------------------------------------------- inputs
\* model = rwc.Net(): the parameters the run starts from.
InitModel == [k \in Keys |-> Rat(7, 1)]
\* The i-th model a training worker can return.
SnapshotOf(i) == [k \in Keys |-> IF k = "conv1.weight" THEN Rat(i, 1) ELSE Rat(i * i, 1)]
TrainedSnapshots == {SnapshotOf(i) : i \in 0..MaxSnap}
\* What fit_model_on_worker can return as its model.
TrainOutcomes == TrainedSnapshots \cup {None}
\* The same for the long runs: one snapshot or None.
LongOutcomes == {SnapshotOf(1), None}
\* args.lr, a positive learning rate: the default 0.1, and 1.
LrChoices == {<<0, 10>>, <<1>>}
LongRuns == (1..MaxSchedRounds) \cup {MaxDecayRounds}

VARIABLES
    pc,              \* where the training cell is
    training_rounds, \* args.training_rounds
    save_model,      \* args.save_model
    lr0,             \* args.lr
    model,           \* the parameters of the nn.Module `model`
    traced_model,    \* the parameters of `traced_model`
    learning_rate,
    curr_round,      \* 0 before the loop
    req,             \* per worker: the fit_model_on_worker call of this round
    results,         \* per worker: the model of its entry in `results`
    returned,        \* per worker: the model as the worker returned it
    models,          \* the dict `models`
    test_models,
    evalLog,         \* the model identifiers "testing" was sent in this round
    evalRounds,      \* the rounds in which "testing" was sent a model
    last_avg,        \* what the last federated_avg call returned
    saved,           \* the contents of mnist_cnn.pt
    err              \* the exception that ended the cell

vars == <<pc, training_rounds, save_model, lr0, model, traced_model, learning_rate,
          curr_round, req, results, returned, models, test_models, evalLog,
          evalRounds, last_avg, saved, err>>

\* A call of fit_model_on_worker: its arguments, and its model once it returned.
Idle == [status |-> "idle", curr_round |-> 0, traced_model |-> None, lr |-> <<0>>,
         result |-> None]
NoResults == [w \in WorkerIds |-> None]
NoModels == [w \in {} |-> None]

InitWith(runs) ==
    /\ pc = "for"
    /\ training_rounds \in runs
    /\ save_model \in BOOLEAN
    /\ lr0 \in LrChoices
    /\ model = InitModel
    /\ traced_model = InitModel
    /\ learning_rate = lr0
    /\ curr_round = 0
    /\ req = [w \in WorkerIds |-> Idle]
    /\ results = NoResults
    /\ returned = NoResults
    /\ models = NoModels
    /\ test_models = FALSE
    /\ evalLog = <<>>
    /\ evalRounds = {}
    /\ last_avg = None
    /\ saved = None
    /\ err = "none"

Init == InitWith(0..MaxRounds)
InitLong == InitWith(LongRuns)

\* ------------------------------------------------------------ the notebook
\* (mutant) evaluation on every 10th round: curr_round % 10 == 0.
TestModelsEveryTenth(r, final) == r % EvalPeriod = 0 \/ r = final

\* test_models = curr_round % 10 == 1 or curr_round == args.training_rounds
TestModels(r, final) == r % EvalPeriod = 1 \/ r = final

\* (mutant) gather returning at the first completion, as asyncio.wait does with
\* return_when=FIRST_COMPLETED.
GatherFirstCompleted(r) == \E w \in WorkerIds : r[w].status = "done"

\* (mutant) gather given up after a while with calls still pending, as
\* asyncio.wait does with a timeout.
GatherWithTimeout(r) == \A w \in WorkerIds : r[w].status \in {"outstanding", "done"}

\* asyncio.gather returns once every awaitable it was given has returned.
GatherDone(r) == \A w \in WorkerIds : r[w].status = "done"

\* (mutant) the dict built without the `is not None` test.
ModelsOfUnfiltered(res) == [w \in WorkerIds |-> res[w]]

\* The dict built from results: the entries whose model is not None.
ModelsOf(res) == [w \in {v \in WorkerIds : res[v] # None} |-> res[w]]

\* The keys of a dict built from results, in insertion order.
KeyOrder(ms) == SelectSeq(worker_instances, LAMBDA w : w \in DOMAIN ms)

\* (mutant) the decay without its floor.
DecayStepNoFloor(lr, initial) == DecTimes(lr, DecayPercent)

\* (mutant) the decay taken from the initial rate each round.
DecayStepFromInitial(lr, initial) ==
    DecMax(DecTimes(initial, DecayPercent), DecTimes(initial, FloorPercent))

\* learning_rate = max(0.98 * learning_rate, args.lr * 0.01)
DecayStep(lr, initial) == DecMax(DecTimes(lr, DecayPercent), DecTimes(initial, FloorPercent))

\* "Model update " + worker_id, and "Federated model"
WorkerLabel(w) == <<"Model update", w>>
FederatedLabel == <<"Federated model">>

\* ------------------------------------------- the library the notebook calls
Raise == [raise |-> TRUE]

\* utils.federated_avg: the parameter-wise mean of the models of a dict, each
\* weighted equally; the models are added up in the dict's order and the sum is
\* scaled by 1 / len(models).  An empty dict is an error.
AddModel(dst, src) == [k \in DOMAIN dst |-> RatAdd(dst[k], src[k])]
ScaleModel(m, n) == [k \in DOMAIN m |-> RatScale(m[k], n)]

RECURSIVE SumModels(_, _, _)
SumModels(ms, order, i) ==
    IF i = 1 THEN ms[order[1]]
    ELSE AddModel(SumModels(ms, order, i - 1), ms[order[i]])

\* (mutant) the sum scaled by the number of workers, not of models.
FederatedAvgByRegistry(ms) ==
    IF DOMAIN ms = {} THEN Raise
    ELSE LET order == KeyOrder(ms)
         IN  ScaleModel(SumModels(ms, order, Len(order)), Len(worker_instances))

\* (mutant) an empty dict averaged to a model without parameters.
FederatedAvgOfNothing(ms) ==
    IF DOMAIN ms = {} THEN [k \in {} |-> Rat(0, 1)]
    ELSE LET order == KeyOrder(ms)
         IN  ScaleModel(SumModels(ms, order, Len(order)), Len(order))

FederatedAvg(ms) ==
    IF DOMAIN ms = {} THEN Raise
    ELSE LET order == KeyOrder(ms)
         IN  ScaleModel(SumModels(ms, order, Len(order)), Len(order))

\* rwc.evaluate_model_on_worker: scores a model snapshot on the evaluation
\* worker; it is handed a model, and None is none.
EvaluateModelOnWorker(m) == IF m = None THEN Raise ELSE [scored |-> TRUE]

\* ------------------------------------------------------------------ actions
\* (mutant) the learning rate decayed after the first call is made, so that the
\* later calls of the round carry the decayed rate.
StartRoundDecayingEarly ==
    /\ pc = "for"
    /\ curr_round < training_rounds
    /\ curr_round' = curr_round + 1
    /\ req' = [w \in WorkerIds |->
                 [status |-> "outstanding", curr_round |-> curr_round + 1,
                  traced_model |-> traced_model,
                  lr |-> IF w = worker_instances[1] THEN learning_rate
                         ELSE DecayStep(learning_rate, lr0),
                  result |-> None]]
    /\ evalLog' = <<>>
    /\ pc' = "await"
    /\ UNCHANGED <<training_rounds, save_model, lr0, model, traced_model, learning_rate,
                   results, returned, models, test_models, evalRounds, last_avg,
                   saved, err>>

\* (mutant) the fan-out taken over every websocket client, "testing" included.
StartRoundWithTesting ==
    /\ pc = "for"
    /\ curr_round < training_rounds
    /\ curr_round' = curr_round + 1
    /\ req' = [w \in WorkerIds \cup {testing} |->
                 [status |-> "outstanding", curr_round |-> curr_round + 1,
                  traced_model |-> traced_model, lr |-> learning_rate, result |-> None]]
    /\ evalLog' = <<>>
    /\ pc' = "await"
    /\ UNCHANGED <<training_rounds, save_model, lr0, model, traced_model, learning_rate,
                   results, returned, models, test_models, evalRounds, last_avg,
                   saved, err>>

\* (mutant) the round started with `model` in place of `traced_model`.
StartRoundWithModel ==
    /\ pc = "for"
    /\ curr_round < training_rounds
    /\ curr_round' = curr_round + 1
    /\ req' = [w \in WorkerIds |->
                 [status |-> "outstanding", curr_round |-> curr_round + 1,
                  traced_model |-> model, lr |-> learning_rate, result |-> None]]
    /\ evalLog' = <<>>
    /\ pc' = "await"
    /\ UNCHANGED <<training_rounds, save_model, lr0, model, traced_model, learning_rate,
                   results, returned, models, test_models, evalRounds, last_avg,
                   saved, err>>

\* for curr_round in range(1, args.training_rounds + 1): the next round is
\* entered and asyncio.gather starts one fit_model_on_worker per worker.
StartRound ==
    /\ pc = "for"
    /\ curr_round < training_rounds
    /\ curr_round' = curr_round + 1
    /\ req' = [w \in WorkerIds |->
                 [status |-> "outstanding", curr_round |-> curr_round + 1,
                  traced_model |-> traced_model, lr |-> learning_rate, result |-> None]]
    /\ evalLog' = <<>>
    /\ pc' = "await"
    /\ UNCHANGED <<training_rounds, save_model, lr0, model, traced_model, learning_rate,
                   results, returned, models, test_models, evalRounds, last_avg,
                   saved, err>>

\* (mutant) the calls awaited one after the other, in the order of
\* worker_instances: a call returns only after the calls before it.
CompleteInTurn(w, outcomes) ==
    /\ pc = "await"
    /\ req[w].status = "outstanding"
    /\ \A i, j \in 1..Len(worker_instances) :
          (i < j /\ worker_instances[j] = w) => req[worker_instances[i]].status = "done"
    /\ \E m \in outcomes :
          req' = [req EXCEPT ![w] = [@ EXCEPT !.status = "done", !.result = m]]
    /\ UNCHANGED <<pc, training_rounds, save_model, lr0, model, traced_model,
                   learning_rate, curr_round, results, returned, models, test_models,
                   evalLog, evalRounds, last_avg, saved, err>>

\* Worker w's fit_model_on_worker returns (w, m, loss), m a model or None.
Complete(w, outcomes) ==
    /\ pc = "await"
    /\ req[w].status = "outstanding"
    /\ \E m \in outcomes :
          req' = [req EXCEPT ![w] = [@ EXCEPT !.status = "done", !.result = m]]
    /\ UNCHANGED <<pc, training_rounds, save_model, lr0, model, traced_model,
                   learning_rate, curr_round, results, returned, models, test_models,
                   evalLog, evalRounds, last_avg, saved, err>>

\* results = await asyncio.gather(...); models = {}; test_models = ...
GatherReturn ==
    /\ pc = "await"
    /\ GatherDone(req)
    /\ results' = [w \in WorkerIds |-> req[w].result]
    /\ returned' = [w \in WorkerIds |-> req[w].result]
    /\ models' = NoModels
    /\ test_models' = TestModels(curr_round, training_rounds)
    /\ pc' = IF test_models' THEN "evaluate_workers" ELSE "build_models"
    /\ UNCHANGED <<training_rounds, save_model, lr0, model, traced_model, learning_rate,
                   curr_round, req, evalLog, evalRounds, last_avg, saved, err>>

\* The number of leading entries of results that evaluate_model_on_worker accepts.
RECURSIVE Evaluated(_, _)
Evaluated(res, i) ==
    IF i > Len(worker_instances) THEN 0
    ELSE IF EvaluateModelOnWorker(res[worker_instances[i]]) = Raise THEN 0
    ELSE 1 + Evaluated(res, i + 1)

\* if test_models: for worker_id, worker_model, _ in results:
\*     rwc.evaluate_model_on_worker("Model update " + worker_id, ..., worker_model)
EvaluateWorkers ==
    /\ pc = "evaluate_workers"
    /\ LET n == Evaluated(results, 1)
       IN  /\ evalLog' = evalLog \o [i \in 1..n |-> WorkerLabel(worker_instances[i])]
           /\ evalRounds' = IF n > 0 THEN evalRounds \cup {curr_round} ELSE evalRounds
           /\ IF n < Len(worker_instances)
              THEN pc' = "aborted" /\ err' = "evaluate_model_on_worker"
              ELSE pc' = "build_models" /\ err' = err
    /\ UNCHANGED <<training_rounds, save_model, lr0, model, traced_model, learning_rate,
                   curr_round, req, results, returned, models, test_models, last_avg,
                   saved>>

\* for worker_id, worker_model, worker_loss in results:
\*     if worker_model is not None: models[worker_id] = worker_model
BuildModels ==
    /\ pc = "build_models"
    /\ models' = ModelsOf(results)
    /\ pc' = "federate"
    /\ UNCHANGED <<training_rounds, save_model, lr0, model, traced_model, learning_rate,
                   curr_round, req, results, returned, test_models, evalLog, evalRounds,
                   last_avg, saved, err>>

\* (mutant) utils.federated_avg(models) called without its result being
\* assigned to traced_model.
FederateDiscardingResult ==
    /\ pc = "federate"
    /\ LET avg == FederatedAvg(models)
       IN  IF avg = Raise
           THEN /\ pc' = "aborted"
                /\ err' = "federated_avg"
                /\ UNCHANGED <<last_avg, models, results>>
           ELSE /\ last_avg' = avg
                /\ models' = [w \in DOMAIN models |->
                                 IF w = Head(KeyOrder(models)) THEN avg ELSE models[w]]
                /\ results' = [w \in WorkerIds |->
                                 IF w \in DOMAIN models /\ w = Head(KeyOrder(models))
                                 THEN avg ELSE results[w]]
                /\ pc' = IF test_models THEN "evaluate_federated" ELSE "decay"
                /\ err' = err
    /\ UNCHANGED <<training_rounds, save_model, lr0, model, learning_rate, curr_round,
                   req, returned, test_models, evalLog, evalRounds, saved, traced_model>>

\* (mutant) federated averaging that leaves every model of the dict as it was.
FederateWithoutSideEffect ==
    /\ pc = "federate"
    /\ LET avg == FederatedAvg(models)
       IN  IF avg = Raise
           THEN /\ pc' = "aborted"
                /\ err' = "federated_avg"
                /\ UNCHANGED <<traced_model, last_avg>>
           ELSE /\ traced_model' = avg
                /\ last_avg' = avg
                /\ pc' = IF test_models THEN "evaluate_federated" ELSE "decay"
                /\ err' = err
    /\ UNCHANGED <<training_rounds, save_model, lr0, model, learning_rate, curr_round,
                   req, returned, test_models, evalLog, evalRounds, saved, models,
                   results>>

\* traced_model = utils.federated_avg(models)
\* ("note that this will also change the model in models[0]": the average is
\* built in the first model of the dict, which results holds too.)
Federate ==
    /\ pc = "federate"
    /\ LET avg == FederatedAvg(models)
       IN  IF avg = Raise
           THEN /\ pc' = "aborted"
                /\ err' = "federated_avg"
                /\ UNCHANGED <<traced_model, last_avg, models, results>>
           ELSE /\ traced_model' = avg
                /\ last_avg' = avg
                /\ models' = [w \in DOMAIN models |->
                                 IF w = Head(KeyOrder(models)) THEN avg ELSE models[w]]
                /\ results' = [w \in WorkerIds |->
                                 IF w \in DOMAIN models /\ w = Head(KeyOrder(models))
                                 THEN avg ELSE results[w]]
                /\ pc' = IF test_models THEN "evaluate_federated" ELSE "decay"
                /\ err' = err
    /\ UNCHANGED <<training_rounds, save_model, lr0, model, learning_rate, curr_round,
                   req, returned, test_models, evalLog, evalRounds, saved>>

\* if test_models: rwc.evaluate_model_on_worker("Federated model", ..., traced_model)
EvaluateFederated ==
    /\ pc = "evaluate_federated"
    /\ IF EvaluateModelOnWorker(traced_model) = Raise
       THEN /\ pc' = "aborted"
            /\ err' = "evaluate_model_on_worker"
            /\ UNCHANGED <<evalLog, evalRounds>>
       ELSE /\ evalLog' = Append(evalLog, FederatedLabel)
            /\ evalRounds' = evalRounds \cup {curr_round}
            /\ pc' = "decay"
            /\ err' = err
    /\ UNCHANGED <<training_rounds, save_model, lr0, model, traced_model, learning_rate,
                   curr_round, req, results, returned, models, test_models, last_avg,
                   saved>>

\* learning_rate = max(0.98 * learning_rate, args.lr * 0.01), the last statement
\* of the loop body.  req, results, returned and models are not read again before
\* the next round overwrites them, and are cleared here.
DecayLR ==
    /\ pc = "decay"
    /\ learning_rate' = DecayStep(learning_rate, lr0)
    /\ req' = [w \in WorkerIds |-> Idle]
    /\ results' = NoResults
    /\ returned' = NoResults
    /\ models' = NoModels
    /\ pc' = "for"
    /\ UNCHANGED <<training_rounds, save_model, lr0, model, traced_model, curr_round,
                   test_models, evalLog, evalRounds, last_avg, saved, err>>

\* The loop is exhausted: if args.save_model: torch.save(model.state_dict(), ...)
Finish ==
    /\ pc = "for"
    /\ curr_round >= training_rounds
    /\ saved' = IF save_model THEN model ELSE saved
    /\ pc' = "done"
    /\ UNCHANGED <<training_rounds, save_model, lr0, model, traced_model, learning_rate,
                   curr_round, req, results, returned, models, test_models, evalLog,
                   evalRounds, last_avg, err>>

Next ==
    \/ StartRound
    \/ \E w \in WorkerIds : Complete(w, TrainOutcomes)
    \/ GatherReturn
    \/ EvaluateWorkers
    \/ BuildModels
    \/ Federate
    \/ EvaluateFederated
    \/ DecayLR
    \/ Finish

NextLong ==
    \/ StartRound
    \/ \E w \in WorkerIds : Complete(w, LongOutcomes)
    \/ GatherReturn
    \/ EvaluateWorkers
    \/ BuildModels
    \/ Federate
    \/ EvaluateFederated
    \/ DecayLR
    \/ Finish

Spec == Init /\ [][Next]_vars
SpecLong == InitLong /\ [][NextLong]_vars

\* The cell is straight-line code: each of its statements is executed once it is
\* reached.  A call of fit_model_on_worker that is out returns in the end.
SpecFair ==
    /\ Init
    /\ [][Next]_vars
    /\ WF_vars(StartRound \/ GatherReturn \/ EvaluateWorkers \/ BuildModels \/ Federate
                  \/ EvaluateFederated \/ DecayLR \/ Finish)
    /\ \A w \in WorkerIds : WF_vars(Complete(w, TrainOutcomes))

\* ------------------------------------------------------------------- claims
Outstanding == {w \in WorkerIds : req[w].status = "outstanding"}
\* The workers whose round result has a model.
Contributors == {w \in WorkerIds : returned[w] # None}
\* The cell is past the gather of the current round.
PastBarrier == pc \in {"evaluate_workers", "build_models", "federate",
                       "evaluate_federated", "decay", "aborted"}

\* C1: evaluation, federated averaging and the decay of a round run only when no
\* training request is outstanding: every worker's request of that very round has
\* returned.
C1_RoundBarrier ==
    PastBarrier =>
        /\ Outstanding = {}
        /\ \A w \in WorkerIds : req[w].status = "done" /\ req[w].curr_round = curr_round

\* Averaging of the second round is about to start, all three requests returned.
C1_Witness ==
    /\ pc = "federate"
    /\ curr_round = 2
    /\ \A w \in WorkerIds : req[w].status = "done"

\* C2: the dict handed to federated_avg has exactly the workers that returned a
\* model as its keys, each with the model that worker returned.
C2_AggregationInput ==
    pc = "federate" =>
        /\ DOMAIN models = {w \in WorkerIds : req[w].result # None}
        /\ \A w \in DOMAIN models : models[w] = req[w].result /\ models[w] = returned[w]

\* A dict with bob and charlie but not alice is handed to federated_avg.
C2_Witness ==
    /\ pc = "federate"
    /\ DOMAIN models = {"bob", "charlie"}
    /\ req["alice"].result = None

\* A round is over once its decay is next or done.
RoundOver(r) == r < curr_round \/ (r = curr_round /\ pc \in {"decay", "for", "done"})

RECURSIVE ReturnedSum(_, _)
ReturnedSum(S, k) ==
    IF S = {} THEN Rat(0, 1)
    ELSE LET w == CHOOSE v \in S : TRUE
         IN  RatAdd(returned[w][k], ReturnedSum(S \ {w}, k))

\* C4: after federated averaging, the aggregate's value at every key, times the
\* number of contributors, is the sum of the contributors' values at that key
\* (each counted once); with two contributors a and b it is (a + b) / 2.
C4_UniformMean ==
    pc \in {"evaluate_federated", "decay"} =>
        /\ Contributors # {}
        /\ DOMAIN traced_model = Keys
        /\ \A k \in Keys :
              LET sum == ReturnedSum(Contributors, k)
                  n == Cardinality(Contributors)
              IN  /\ traced_model[k].num * sum.den * n = sum.num * traced_model[k].den
                  /\ traced_model[k].den > 0
        /\ \A a, b \in Contributors :
              (a # b /\ Contributors = {a, b}) =>
                  \A k \in Keys : traced_model[k] = RatScale(RatAdd(returned[a][k], returned[b][k]), 2)

\* Two workers returned different models and their average has been taken.
C4_Witness ==
    /\ pc = "decay"
    /\ Contributors = {"alice", "charlie"}
    /\ returned["alice"] = SnapshotOf(1)
    /\ returned["charlie"] = SnapshotOf(2)
    /\ traced_model["conv1.weight"] = [num |-> 3, den |-> 2]
    /\ traced_model["fc2.bias"] = [num |-> 5, den |-> 2]

\* Every worker of the current round returned None.
AllAbsentRound == PastBarrier /\ \A w \in WorkerIds : req[w].status = "done" /\ req[w].result = None

\* C5: a round in which every worker returned None never gets past federated
\* averaging (the cell ends with an exception), and the model broadcast to the
\* workers always has every parameter key.
C5_EmptyRoundIsAnError ==
    /\ AllAbsentRound => pc \in {"evaluate_workers", "build_models", "federate", "aborted"}
    /\ (AllAbsentRound /\ pc = "aborted") => err # "none"
    /\ DOMAIN traced_model = Keys
    /\ \A w \in WorkerIds : req[w].status # "idle" => DOMAIN req[w].traced_model = Keys

\* federated_avg was handed an empty dict and the cell ended.
C5_Witness == AllAbsentRound /\ pc = "aborted" /\ err = "federated_avg" /\ models = NoModels

\* 0.01 * args.lr
LrFloor == DecTimes(lr0, 1)

\* C6: the learning rate changes only in the decay step, which every round takes
\* once, after its federated averaging, and which sets it to
\* max(0.98 * lr, 0.01 * args.lr); it never increases and stays between
\* 0.01 * args.lr and args.lr.
C6_LearningRateMachine ==
    /\ [](DecLeq(LrFloor, learning_rate) /\ DecLeq(learning_rate, lr0))
    /\ [][/\ learning_rate' # learning_rate => pc = "decay"
          /\ pc = "decay" =>
                /\ pc' = "for"
                /\ learning_rate' = DecMax(DecTimes(learning_rate, 98), LrFloor)
          /\ pc' = "decay" => pc \in {"federate", "evaluate_federated"}
          /\ pc' = "for" => pc = "decay"
          /\ curr_round' # curr_round => (pc = "for" /\ curr_round' = curr_round + 1)
          /\ DecLeq(learning_rate', learning_rate)]_vars

\* The decay has hit the floor: 0.98 * lr is below 0.01 * args.lr.
C6_Witness ==
    /\ pc = "for"
    /\ learning_rate = LrFloor
    /\ ~DecLeq(LrFloor, DecTimes(learning_rate, 98))

\* <<0.98 * x, 0.98^2 * x, ..., 0.98^n * x>>, n >= 1, built by halves.
RECURSIVE Geometric(_, _)
Geometric(x, n) ==
    IF n = 1 THEN <<DecTimes(x, 98)>>
    ELSE Only({l \o Geometric(l[Len(l)], n - n \div 2) : l \in {Geometric(x, n \div 2)}})

\* For every args.lr, the powers 0.98^n * args.lr, 1 <= n <= MaxDecayRounds + 1.
GeometricTable == [x \in LrChoices |-> Geometric(x, MaxDecayRounds + 1)]

\* max(0.98^n * x, 0.01 * x)
ClosedForm(n, x) == DecMax(IF n = 0 THEN x ELSE GeometricTable[x][n], DecTimes(x, 1))

\* The rounds whose decay step has been taken.
CompletedRounds == IF pc \in {"for", "done"} THEN curr_round ELSE curr_round - 1

\* C7: after n completed rounds the learning rate is max(0.98^n * lr0, 0.01 * lr0),
\* and the requests of round r carry max(0.98^(r-1) * lr0, 0.01 * lr0).
C7_ClosedForm ==
    /\ learning_rate = ClosedForm(CompletedRounds, lr0)
    /\ \A w \in WorkerIds :
          req[w].status # "idle" => req[w].lr = ClosedForm(req[w].curr_round - 1, lr0)

\* Round 4 of a run with args.lr = 0.1 is out: its requests carry
\* 0.1 * 0.98^3 = 0.0941192.
C7_Witness ==
    /\ pc = "await"
    /\ curr_round = 4
    /\ lr0 = <<0, 10>>
    /\ \A w \in WorkerIds : req[w].lr = <<0, 9, 41, 19, 20>>

\* Some but not every worker of the current round returned None.
PartlyAbsentRound ==
    /\ PastBarrier
    /\ \A w \in WorkerIds : req[w].status = "done"
    /\ \E w \in WorkerIds : req[w].result = None
    /\ \E w \in WorkerIds : req[w].result # None

\* C8 (as claimed): a round in which some but not every worker returned None does
\* not end the run.
C8_AbsentModelIsSoftSkip == PartlyAbsentRound => pc # "aborted"

\* C9: the requests of round 1 carry the initial model, and the requests of every
\* later round carry what the federated averaging of the round before returned.
C9_ModelHandOver ==
    pc = "await" =>
        \A w \in WorkerIds :
            /\ req[w].curr_round = curr_round
            /\ req[w].traced_model = IF curr_round = 1 THEN InitModel ELSE last_avg
            /\ req[w].traced_model = traced_model

\* Round 2 is out with the average of round 1, which is not the initial model.
C9_Witness ==
    /\ pc = "await"
    /\ curr_round = 2
    /\ req["bob"].traced_model = last_avg
    /\ last_avg # InitModel

\* C10 (as claimed): the file written at the end holds the final model, the last
\* round's aggregate; nothing is written unless saving is configured.
C10_SavedIsFinalModel ==
    pc = "done" => saved = (IF save_model THEN traced_model ELSE None)

\* The request of worker w keeps its arguments over a step.
SameCall(w) ==
    /\ req'[w].curr_round = req[w].curr_round
    /\ req'[w].traced_model = req[w].traced_model
    /\ req'[w].lr = req[w].lr

\* C11: in every round each worker of worker_instances gets exactly one training
\* request and gives exactly one round result, kept under its own id; a request
\* is issued only when the round is entered (all of them at once), returns once
\* and is never issued again in the round, whatever it returned; "testing" never
\* gets a training request.
C11_OneRequestPerWorker ==
    /\ [](/\ DOMAIN req = WorkerIds
          /\ DOMAIN results = WorkerIds
          /\ testing \notin DOMAIN req
          /\ pc = "await" =>
                \A w \in WorkerIds : /\ req[w].status \in {"outstanding", "done"}
                                     /\ req[w].curr_round = curr_round
          /\ PastBarrier => \A w \in WorkerIds : returned[w] = req[w].result
          /\ pc \in {"evaluate_workers", "build_models"} =>
                \A w \in WorkerIds : results[w] = req[w].result)
    /\ [][\A w \in WorkerIds :
            /\ (req'[w].status = "outstanding" /\ req[w].status # "outstanding") =>
                  /\ pc = "for"
                  /\ req[w].status = "idle"
                  /\ curr_round' = curr_round + 1
                  /\ \A v \in WorkerIds : req'[v].status = "outstanding"
            /\ req[w].status = "outstanding" =>
                  \/ req'[w] = req[w]
                  \/ req'[w].status = "done" /\ SameCall(w)
            /\ req[w].status = "done" =>
                  \/ req'[w] = req[w]
                  \/ pc = "decay" /\ req'[w] = Idle]_vars

\* Round 2 is past its gather: alice's result has a model, bob's has none and
\* charlie's has another model, each under its own id.
C11_Witness ==
    /\ pc = "build_models"
    /\ curr_round = 2
    /\ results["alice"] = SnapshotOf(0)
    /\ results["bob"] = None
    /\ results["charlie"] = SnapshotOf(2)
    /\ \A w \in WorkerIds : req[w].status = "done" /\ req[w].result = results[w]

\* What training goes on from: the round, the learning rate, the round results,
\* the dict to average and the model to broadcast.
TrainingState == <<curr_round, learning_rate, results, returned, models, traced_model>>

\* C12 (as claimed): an evaluation step, of the workers' models or of the
\* federated model, leaves the round number, the learning rate, the round
\* results, the dict to average and the model to broadcast as they are, and the
\* cell goes on as it does in a round without evaluation: to the building of
\* models, and to the decay.
C12_EvaluationReadOnly ==
    [][/\ pc = "evaluate_workers" =>
             (TrainingState' = TrainingState /\ pc' = "build_models")
       /\ pc = "evaluate_federated" =>
             (TrainingState' = TrainingState /\ pc' = "decay")]_vars

\* What a round has done once it is over.
RoundProgress == <<curr_round, learning_rate, traced_model, last_avg, results, models,
                   evalLog, evalRounds, saved, err>>

\* C13: a training request that has not returned holds the cell at the gather of
\* its round: nothing but the return of a request happens, there is no timeout
\* and no cancellation, so as long as worker w stays silent the averaging and the
\* decay of that round and every later round are not reached, whether or not the
\* other workers have returned.
C13_HungWorkerBlocks ==
    /\ [](Outstanding # {} => pc = "await")
    /\ [][Outstanding # {} =>
             /\ pc' = "await"
             /\ RoundProgress' = RoundProgress
             /\ \A w \in WorkerIds :
                   req'[w] # req[w] =>
                       (w \in Outstanding /\ req'[w].status = "done" /\ SameCall(w))]_vars
    /\ \A w \in WorkerIds :
          <>[](req[w].status = "outstanding") => <>[](pc = "await" /\ w \in Outstanding)

\* Round 2: alice and charlie have returned, bob has not.
C13_Witness ==
    /\ pc = "await"
    /\ curr_round = 2
    /\ Outstanding = {"bob"}
    /\ req["alice"].status = "done"
    /\ req["charlie"].status = "done"
    /\ ~ENABLED GatherReturn

\* C14: entering a round starts the calls of all workers before any of them has
\* returned, and at the gather every call that has not returned can return next,
\* whichever calls have returned before it: the results come in any order.
C14_NonBlockingDispatch ==
    /\ [](pc = "await" => \A w \in Outstanding : ENABLED Complete(w, TrainOutcomes))
    /\ [][(pc = "for" /\ pc' = "await") =>
             \A w \in WorkerIds : req'[w].status = "outstanding"]_vars

\* Round 2: charlie, the last of worker_instances, has returned a model, alice
\* and bob have not returned, and either of them can return next.
C14_Witness ==
    /\ pc = "await"
    /\ curr_round = 2
    /\ Outstanding = {"alice", "bob"}
    /\ req["charlie"].status = "done"
    /\ req["charlie"].result = SnapshotOf(1)
    /\ ENABLED Complete("bob", TrainOutcomes)
    /\ ENABLED Complete("alice", TrainOutcomes)

\* What every call of a round is given.
Broadcast == <<traced_model, learning_rate, curr_round>>

\* C15: at the gather every call of the round carries the same model, the same
\* learning rate and the same round number, those of the cell; and from the
\* start of the calls to the return of the gather no step changes the model to
\* broadcast, the learning rate, the round number or what a call carries.
C15_SharedRoundInputs ==
    /\ [](pc = "await" =>
            \A w \in WorkerIds :
                /\ req[w].traced_model = traced_model
                /\ req[w].lr = learning_rate
                /\ req[w].curr_round = curr_round
                /\ \A v \in WorkerIds :
                      /\ req[v].traced_model = req[w].traced_model
                      /\ req[v].lr = req[w].lr
                      /\ req[v].curr_round = req[w].curr_round)
    /\ [][pc = "await" =>
             /\ Broadcast' = Broadcast
             /\ \A w \in WorkerIds : SameCall(w)]_vars

\* Round 2 of a run with args.lr = 0.1: alice and charlie have returned, bob has
\* not, and all three calls carry the average of round 1 and the rate 0.098.
C15_Witness ==
    /\ pc = "await"
    /\ curr_round = 2
    /\ Outstanding = {"bob"}
    /\ lr0 = <<0, 10>>
    /\ last_avg # InitModel
    /\ \A w \in WorkerIds : req[w].lr = <<0, 9, 80>> /\ req[w].traced_model = last_avg

\* The first worker of the dict `models`: the first of worker_instances that
\* returned a model.
FirstContributor == Head(SelectSeq(worker_instances, LAMBDA w : returned[w] # None))

\* C16 (as claimed): once returned, a worker's model is never changed by a later
\* step of its round: what results holds for a worker is what the worker returned.
C16_SnapshotsImmutable ==
    PastBarrier => \A w \in WorkerIds : results[w] = returned[w]

\* C16 (amended): a returned model is unchanged by the evaluation steps and up to
\* federated averaging; federated averaging leaves the aggregate in the first
\* model of the dict, and every other returned model as it was.
C16_OnlyFirstModelChanged ==
    /\ [](pc \in {"evaluate_workers", "build_models", "federate"} =>
            /\ \A w \in WorkerIds : results[w] = returned[w]
            /\ \A w \in DOMAIN models : models[w] = returned[w])
    /\ [](pc \in {"evaluate_federated", "decay"} =>
            /\ Contributors # {}
            /\ DOMAIN models = Contributors
            /\ \A w \in WorkerIds \ {FirstContributor} : results[w] = returned[w]
            /\ \A w \in Contributors \ {FirstContributor} : models[w] = returned[w]
            /\ results[FirstContributor] = traced_model
            /\ models[FirstContributor] = traced_model)
    /\ [][(pc \in {"evaluate_workers", "build_models", "evaluate_federated"}) =>
             (results' = results /\ returned' = returned)]_vars

\* alice and charlie returned different models and bob none; after averaging
\* alice's entry holds the average and charlie's is as charlie returned it.
C16_Witness ==
    /\ pc = "decay"
    /\ returned["alice"] = SnapshotOf(1)
    /\ returned["bob"] = None
    /\ returned["charlie"] = SnapshotOf(2)
    /\ results["alice"] = traced_model
    /\ results["alice"] # returned["alice"]
    /\ results["charlie"] = SnapshotOf(2)

\* C17: when exactly one worker of a round returned a model, what federated
\* averaging returns is that model, key for key and value for value; it is the
\* model to broadcast, it is still that after the decay, and the calls of the next
\* round carry it.
C17_SingleContributor ==
    /\ []((pc \in {"evaluate_federated", "decay"} /\ Cardinality(Contributors) = 1) =>
            \A w \in Contributors :
                /\ DOMAIN traced_model = DOMAIN returned[w]
                /\ \A k \in DOMAIN returned[w] : traced_model[k] = returned[w][k]
                /\ traced_model = returned[w]
                /\ last_avg = returned[w])
    /\ [][/\ pc \in {"evaluate_federated", "decay"} => traced_model' = traced_model
          /\ (pc = "for" /\ pc' = "await") =>
                \A v \in WorkerIds : req'[v].traced_model = traced_model]_vars

\* Round 2 of three: only bob returned a model, and it is the model to broadcast.
C17_Witness ==
    /\ pc = "decay"
    /\ curr_round = 2
    /\ training_rounds = 3
    /\ Contributors = {"bob"}
    /\ returned["bob"] = SnapshotOf(2)
    /\ traced_model = SnapshotOf(2)

\* "Model update alice", "Model update bob", "Model update charlie"
AllWorkerLabels == [i \in 1..Len(worker_instances) |-> WorkerLabel(worker_instances[i])]

\* C19 (as claimed): in a round with test_models, "testing" is sent nothing
\* before the gather has returned; once the evaluation of the workers' models is
\* over it has been sent exactly the workers' results, one each, in the order of
\* worker_instances and labelled with the worker's id, and that before federated
\* averaging starts; the federated model, under a label no worker has, is sent
\* after federated averaging and before the decay, and nothing else is.  In a
\* round without test_models it is sent nothing.
C19_EvaluationOrder ==
    /\ \A w \in WorkerIds : WorkerLabel(w) # FederatedLabel
    /\ \A v, w \in WorkerIds : WorkerLabel(v) = WorkerLabel(w) => v = w
    /\ PastBarrier => test_models = TestModels(curr_round, training_rounds)
    /\ pc \in {"await", "evaluate_workers"} => evalLog = <<>>
    /\ (PastBarrier /\ ~test_models) => evalLog = <<>>
    /\ (PastBarrier /\ test_models /\ pc # "evaluate_workers") =>
          /\ Len(evalLog) >= Len(AllWorkerLabels)
          /\ SubSeq(evalLog, 1, Len(AllWorkerLabels)) = AllWorkerLabels
    /\ (test_models /\ pc \in {"build_models", "federate", "evaluate_federated"}) =>
          evalLog = AllWorkerLabels
    /\ (test_models /\ pc = "decay") => evalLog = Append(AllWorkerLabels, FederatedLabel)

\* C20 (as claimed): the rounds are entered one after the other, numbered from 1,
\* each with one fan-out, then one federated averaging, then one decay; the run
\* ends after round training_rounds and not before; and when every call returns
\* and every round has at least one worker that returned a model, the run does
\* end.
C20_Termination ==
    /\ [](curr_round \in 0..training_rounds)
    /\ [](pc = "done" => curr_round = training_rounds)
    /\ [][/\ curr_round' # curr_round =>
                (pc = "for" /\ pc' = "await" /\ curr_round' = curr_round + 1)
          /\ pc' = "await" => (pc = "for" \/ pc = "await")
          /\ (pc' = "federate" /\ pc # "federate") => pc = "build_models"
          /\ (pc' = "decay" /\ pc # "decay") => pc \in {"federate", "evaluate_federated"}
          /\ (pc' = "for" /\ pc # "for") => pc = "decay"
          /\ pc' = "done" => (pc = "for" \/ pc = "done")]_vars
    /\ [](PastBarrier => Contributors # {}) => <>(pc = "done")
====
